---------------------------- MODULE Spec2Model ----------------------------
(***************************************************************************)
(* A model of the partial-observation state indexing utilities             *)
(* (algorithms/utilities.py) and of the fixed-observation oracle           *)
(* (src/algorithms/oracle_simoos.py) of NCC-Bandits.                       *)
(*                                                                         *)
(* numpy arrays and Python lists are functions with domain 0..n-1, so      *)
(* every index of the model is the index of the source.  Feature values   *)
(* are integers and Python's None is the integer -1, which no feature      *)
(* takes.  A float that need not be integral (a reward, a mean, a          *)
(* probability, a value) is the exact rational <<numerator, denominator>>  *)
(* with a positive denominator, and NaN is <<0, 0>>; rounding is not       *)
(* modelled.  A call's outcome is a record: the exception it raised ("" if *)
(* none) and the value it returned.                                        *)
(***************************************************************************)
EXTENDS Integers, Sequences, FiniteSets, TLC

VARIABLES
    all_contexts,   \* the historical context matrix given to the constructor
    all_rewards,    \* the historical reward matrix given to the constructor
    cost_vector,    \* the per-feature observation costs given to the constructor
    self,           \* the SimOOS_Oracle object: a record of its attributes
    trial,          \* the replay loop's position: trial number and next call
    call,           \* the call being made: function name and arguments
    ret             \* what the call returned or raised ("pending" before it ran)

vars == <<all_contexts, all_rewards, cost_vector, self, trial, call, ret>>

---------------------------------------------------------------------------
(* Bounds of the model. *)

MaxPermDim == 3     \* largest dimensionality handed to the enumerators
MaxFeatures == 2    \* largest number of context features of a dataset
MaxRows == 2        \* largest number of trials (rows) of a dataset
MaxBeta == 1        \* largest trade-off parameter beta
MaxCost == 1        \* largest cost of observing one feature
NumArms == 2        \* number of arms of a dataset

FeatureDomain == {1, 2}     \* the values a context feature takes
\* a feature value no dataset holds
Unseen == 1 + Cardinality(FeatureDomain)

None == -1

NaN == <<0, 0>>

Returned(v) == [raised |-> "", value |-> v]

Raised(e) == [raised |-> e, value |-> 0]

Pending == [raised |-> "pending", value |-> 0]

---------------------------------------------------------------------------
(* Arrays and floats. *)

Size(a) == Cardinality(DOMAIN a)

Array(n, S) == [0..(n - 1) -> S]

Zeros(n) == [i \in 0..(n - 1) |-> 0]

RECURSIVE Pow(_, _)
Pow(b, e) == IF e = 0 THEN 1 ELSE b * Pow(b, e - 1)

\* np.concatenate((a, b), axis=0)
Concatenate(a, b) ==
    [i \in 0..(Size(a) + Size(b) - 1) |->
        IF i < Size(a) THEN a[i] ELSE b[i - Size(a)]]

\* The order numpy sorts rows of equal length in: lexicographic.
RowLess(a, b) ==
    \E i \in DOMAIN a :
        /\ a[i] < b[i]
        /\ \A j \in DOMAIN a : j < i => a[j] = b[j]

RECURSIVE SortedRows(_)
SortedRows(S) ==
    IF S = {} THEN <<>>
    ELSE LET m == CHOOSE x \in S : \A y \in S : x = y \/ RowLess(x, y)
         IN  <<m>> \o SortedRows(S \ {m})

\* np.unique(rows, axis=0): the distinct rows, sorted.
unique_rows(S) ==
    LET s == SortedRows(S) IN [i \in 0..(Len(s) - 1) |-> s[i + 1]]

RECURSIVE SortedInts(_)
SortedInts(S) ==
    IF S = {} THEN <<>>
    ELSE LET m == CHOOSE x \in S : \A y \in S : x <= y
         IN  <<m>> \o SortedInts(S \ {m})

\* list.index(x): the first position holding x; -1 stands for its ValueError.
list_index(l, x) ==
    IF \E i \in DOMAIN l : l[i] = x
    THEN CHOOSE i \in DOMAIN l : l[i] = x /\ \A j \in DOMAIN l : j < i => l[j] # x
    ELSE -1

RECURSIVE SumOver(_, _)
SumOver(f, S) ==
    IF S = {} THEN 0
    ELSE LET x == CHOOSE y \in S : TRUE IN f[x] + SumOver(f, S \ {x})

RECURSIVE ProdOver(_, _)
ProdOver(f, S) ==
    IF S = {} THEN 1
    ELSE LET x == CHOOSE y \in S : TRUE IN f[x] * ProdOver(f, S \ {x})

\* np.dot of two integer vectors
dot(a, b) == SumOver([i \in DOMAIN a |-> a[i] * b[i]], DOMAIN a)

Float(n) == <<n, 1>>

isnan(x) == x[2] = 0

FloatAdd(x, y) ==
    IF isnan(x) \/ isnan(y) THEN NaN ELSE <<x[1] * y[2] + y[1] * x[2], x[2] * y[2]>>

FloatSub(x, y) ==
    IF isnan(x) \/ isnan(y) THEN NaN ELSE <<x[1] * y[2] - y[1] * x[2], x[2] * y[2]>>

FloatMul(x, y) ==
    IF isnan(x) \/ isnan(y) THEN NaN ELSE <<x[1] * y[1], x[2] * y[2]>>

\* x / n for a count n >= 1
FloatDiv(x, n) == IF isnan(x) THEN NaN ELSE <<x[1], x[2] * n>>

\* The comparisons of IEEE floats: every one with a NaN is false.
FloatLess(x, y) == ~isnan(x) /\ ~isnan(y) /\ x[1] * y[2] < y[1] * x[2]

FloatEq(x, y) == ~isnan(x) /\ ~isnan(y) /\ x[1] * y[2] = y[1] * x[2]

RECURSIVE FloatSum(_, _)
FloatSum(f, S) ==
    IF S = {} THEN Float(0)
    ELSE LET x == CHOOSE y \in S : TRUE IN FloatAdd(f[x], FloatSum(f, S \ {x}))

argmax_last(a) ==
    IF \E i \in DOMAIN a : isnan(a[i])
    THEN CHOOSE i \in DOMAIN a : isnan(a[i]) /\ \A j \in DOMAIN a : j < i => ~isnan(a[j])
    ELSE CHOOSE i \in DOMAIN a :
            /\ \A j \in DOMAIN a : ~FloatLess(a[i], a[j])
            /\ \A j \in DOMAIN a : j > i => FloatLess(a[j], a[i])

\* np.argmax: the first NaN if there is one, else the first maximum.
argmax(a) ==
    IF \E i \in DOMAIN a : isnan(a[i])
    THEN CHOOSE i \in DOMAIN a : isnan(a[i]) /\ \A j \in DOMAIN a : j < i => ~isnan(a[j])
    ELSE CHOOSE i \in DOMAIN a :
            /\ \A j \in DOMAIN a : ~FloatLess(a[i], a[j])
            /\ \A j \in DOMAIN a : j < i => FloatLess(a[j], a[i])

\* np.max: NaN if there is one, else the maximum.
amax(a) == a[argmax(a)]

---------------------------------------------------------------------------
(* utilities.py *)

\* Row i is np.binary_repr(i, width=size), most significant digit first.
full_perm_construct(size) ==
    [i \in 0..(Pow(2, size) - 1) |->
        [p \in 0..(size - 1) |-> (i \div Pow(2, size - 1 - p)) % 2]]

\* itertools.permutations(v): every reordering of v's positions; np.unique,
\* which alone reads the list, keeps neither its order nor its repetitions.
permutations(v) ==
    LET n == Size(v)
        Bijections == {f \in [0..(n - 1) -> 0..(n - 1)] :
                          \A a, b \in 0..(n - 1) : f[a] = f[b] => a = b}
    IN  {[p \in 0..(n - 1) |-> v[f[p]]] : f \in Bijections}

\* One pass of perm_construct's loop: p, the sorted distinct rows with i ones.
perms_of_weight(org_dim_context, i) ==
    LET temp_together == [p \in 0..(org_dim_context - 1) |-> IF p < i THEN 1 ELSE 0]
    IN  unique_rows(permutations(temp_together))

\* all_perms after the passes 0..i of perm_construct's loop
RECURSIVE perm_loop(_, _)
perm_loop(org_dim_context, i) ==
    IF i = 0 THEN perms_of_weight(org_dim_context, 0)
    ELSE Concatenate(perm_loop(org_dim_context, i - 1),
                     perms_of_weight(org_dim_context, i))

\* perm_construct with its loop one pass short: range(0, max_no_red_context)
perm_construct_short(org_dim_context, max_no_red_context) ==
    IF org_dim_context = max_no_red_context
    THEN full_perm_construct(org_dim_context)
    ELSE perm_loop(org_dim_context,
                   IF max_no_red_context = 0 THEN 0 ELSE max_no_red_context - 1)

perm_construct(org_dim_context, max_no_red_context) ==
    IF org_dim_context = max_no_red_context
    THEN full_perm_construct(org_dim_context)
    ELSE perm_loop(org_dim_context, max_no_red_context)

\* Returns <<feature_values, feature_counts>>.
save_feature_values(contexts) ==
    LET org_dim_context == Size(contexts[0])
        column(i) == {contexts[t][i] : t \in DOMAIN contexts}
        values(i) == LET s == SortedInts(column(i))
                     IN  [k \in 0..Len(s) |-> IF k = 0 THEN None ELSE s[k]]
    IN  << [i \in 0..(org_dim_context - 1) |-> values(i)],
           [i \in 0..(org_dim_context - 1) |-> Size(values(i))] >>

\* Returns <<psi, s_o>>.
state_construct(all_feature_counts, contexts, one_perm) ==
    LET org_dim_context == Size(contexts[0])
        D == 0..(org_dim_context - 1)
        number_of_observation_action == SumOver(one_perm, D)
    IN  IF number_of_observation_action > 0
        THEN << ProdOver([i \in D |-> Pow(all_feature_counts[i] - 1, one_perm[i])], D),
                ProdOver([i \in D |-> Pow(all_feature_counts[i], one_perm[i])], D) >>
        ELSE <<1, 1>>

\* The positional fold of state_extract, lines 136-143.
state_index_of(feature_values, all_feature_counts, context_at_t) ==
    LET org_dim_context == Size(context_at_t)
        feature_index(i) == list_index(feature_values[i], context_at_t[i])
        state_index[i \in 0..org_dim_context] ==
            IF i = 0 THEN 0
            ELSE state_index[i - 1] * all_feature_counts[i - 1] + feature_index(i - 1)
    IN  IF \E i \in 0..(org_dim_context - 1) : feature_index(i) = -1
        THEN Raised("ValueError")
        ELSE Returned(state_index[org_dim_context])

\* state_extract without its sanity check
state_extract_unchecked(feature_values, all_feature_counts, context_at_t, observation_action_at_t) ==
    state_index_of(feature_values, all_feature_counts, context_at_t)

\* The index, or the exception raised: AssertionError by the sanity check,
\* ValueError by list.index for a value the catalog does not hold.
state_extract(feature_values, all_feature_counts, context_at_t, observation_action_at_t) ==
    IF \E i \in DOMAIN context_at_t :
          \/ observation_action_at_t[i] = 1 /\ context_at_t[i] = None
          \/ observation_action_at_t[i] # 1 /\ context_at_t[i] # None
    THEN Raised("AssertionError")
    ELSE state_index_of(feature_values, all_feature_counts, context_at_t)

\* state_create with its loop running from the first feature to the last
state_create_forward(state_index, feature_values) ==
    LET org_dim_context == Size(feature_values)
        rest[i \in 0..(org_dim_context - 1)] ==
            IF i = 0 THEN state_index
            ELSE (rest[i - 1] - (rest[i - 1] % Size(feature_values[i - 1])))
                     \div Size(feature_values[i - 1])
        context == [i \in 0..(org_dim_context - 1) |->
                       LET v == feature_values[i][rest[i] % Size(feature_values[i])]
                       IN  IF v = None THEN NaN ELSE Float(v)]
    IN  [i \in 0..(org_dim_context - 1) |->
            IF isnan(context[i]) THEN None ELSE context[i][1]]

\* The float array 'context' holds NaN where the catalog value is None, and
\* the float of the value elsewhere; the returned array holds None where
\* 'context' holds NaN and, elsewhere, the float, which Python's == and
\* list.index take for the integer it came from.
state_create(state_index, feature_values) ==
    LET org_dim_context == Size(feature_values)
        \* rest[i]: state_index when the reversed loop reaches position i
        rest[i \in 0..(org_dim_context - 1)] ==
            IF i = org_dim_context - 1 THEN state_index
            ELSE (rest[i + 1] - (rest[i + 1] % Size(feature_values[i + 1])))
                     \div Size(feature_values[i + 1])
        context == [i \in 0..(org_dim_context - 1) |->
                       LET v == feature_values[i][rest[i] % Size(feature_values[i])]
                       IN  IF v = None THEN NaN ELSE Float(v)]
    IN  [i \in 0..(org_dim_context - 1) |->
            IF isnan(context[i]) THEN None ELSE context[i][1]]

\* generate_substate_observations without its np.unique
generate_substate_observations_all(observation) ==
    LET all_perms == full_perm_construct(Size(observation))
    IN  [i \in DOMAIN all_perms |->
            [p \in DOMAIN observation |-> all_perms[i][p] * observation[p]]]

generate_substate_observations(observation) ==
    LET all_perms == full_perm_construct(Size(observation))
        substate_observations ==
            [i \in DOMAIN all_perms |->
                [p \in DOMAIN observation |-> all_perms[i][p] * observation[p]]]
    IN  unique_rows({substate_observations[i] : i \in DOMAIN all_perms})

\* The substate; the empty array stands for the sanity check's AssertionError.
get_substate(vector, substate_observation) ==
    IF \E i \in DOMAIN substate_observation :
          vector[i] = None /\ substate_observation[i] # 0
    THEN <<>>
    ELSE [i \in DOMAIN substate_observation |->
             IF substate_observation[i] = 1 THEN vector[i] ELSE None]

\* Returns <<substates, substate_observations>>.
generate_substates(partial_vector, observation) ==
    LET substate_observations == generate_substate_observations(observation)
        substates == [i \in DOMAIN substate_observations |->
                         get_substate(partial_vector, substate_observations[i])]
    IN  IF \E i \in DOMAIN substates : substates[i] = <<>>
        THEN Raised("AssertionError")
        ELSE Returned(<<substates, substate_observations>>)

---------------------------------------------------------------------------
(* oracle_simoos.py *)

\* all_contexts * O_temp: row t with its unobserved positions multiplied by 0
masked_contexts(contexts, one_perm) ==
    [t \in DOMAIN contexts |->
        [p \in DOMAIN one_perm |-> contexts[t][p] * one_perm[p]]]

\* Returns <<true_prob_so, true_average_reward, S_Size>>.  The tables are
\* np.zeros arrays with s_o_max_general columns, written at the columns
\* j < S_Size[i]; np.sum of a column holding a NaN is NaN.
general(contexts, rewards, max_num_observations, s_o_max_general) ==
    LET time_horizon == Size(rewards)
        number_of_actions == Size(rewards[0])
        context_dimensionality == Size(contexts[0])
        all_perms == perm_construct(context_dimensionality, max_num_observations)
        all_contexts_temp ==
            [i \in DOMAIN all_perms |-> masked_contexts(contexts, all_perms[i])]
        S == [i \in DOMAIN all_perms |->
                 unique_rows({all_contexts_temp[i][t] : t \in DOMAIN contexts})]
        S_Size == [i \in DOMAIN all_perms |-> Size(S[i])]
        \* the trials all_unique_state_s_when_applying_perm_i marks
        members == [i \in DOMAIN all_perms |-> [j \in DOMAIN S[i] |->
                       {t \in DOMAIN contexts : all_contexts_temp[i][t] = S[i][j]}]]
        number_of_unique_state_s_when_applying_perm_i ==
            [i \in DOMAIN all_perms |-> [j \in DOMAIN S[i] |-> Cardinality(members[i][j])]]
        true_prob_so ==
            [i \in DOMAIN all_perms |-> [j \in 0..(s_o_max_general - 1) |->
                IF j < S_Size[i]
                THEN <<number_of_unique_state_s_when_applying_perm_i[i][j], time_horizon>>
                ELSE Float(0)]]
        true_average_reward ==
            [i \in DOMAIN all_perms |-> [j \in 0..(s_o_max_general - 1) |->
                [k \in 0..(number_of_actions - 1) |->
                    IF j < S_Size[i]
                    THEN LET number_of_visits_for_average_reward ==
                                 Cardinality(members[i][j])
                             sum_of_rewards ==
                                 FloatSum([t \in members[i][j] |-> rewards[t][k]],
                                          members[i][j])
                         IN  FloatDiv(sum_of_rewards, number_of_visits_for_average_reward)
                    ELSE Float(0)]]]
    IN  <<true_prob_so, true_average_reward, S_Size>>

\* value_o[i] with the observation cost added instead of subtracted
value_of_plus_cost(beta, true_prob_so_i, r_star_i, one_perm, costs) ==
    FloatAdd(FloatMul(Float(beta),
                      FloatSum([j \in DOMAIN r_star_i |->
                                   FloatMul(true_prob_so_i[j], r_star_i[j])],
                               DOMAIN r_star_i)),
             Float(dot(one_perm, costs)))

\* value_o[i], lines 149-150
value_of(beta, true_prob_so_i, r_star_i, one_perm, costs) ==
    FloatSub(FloatMul(Float(beta),
                      FloatSum([j \in DOMAIN r_star_i |->
                                   FloatMul(true_prob_so_i[j], r_star_i[j])],
                               DOMAIN r_star_i)),
             Float(dot(one_perm, costs)))

select_last(value_o) == argmax_last(value_o)

\* index_of_observation_action_star, line 152
select(value_o) == argmax(value_o)

\* The attributes __init__ sets up to line 144, which read neither beta nor
\* the cost vector.  state_construct returns <<psi, s_o>>; s_o[i] holds its
\* array size s_o, as the comments of lines 119-124 describe it.
\* observation_action_at_t and action_at_t are not attributes yet: the empty
\* array and None stand for that.
oracle_statistics(contexts, rewards, number_of_actions, max_num_observations) ==
    LET time_horizon == Size(contexts)
        context_dimensionality == Size(contexts[0])
        all_perms == perm_construct(context_dimensionality, max_num_observations)
        number_of_perms == Size(all_perms)
        catalog == save_feature_values(contexts)
        s_o == [i \in 0..(number_of_perms - 1) |->
                   state_construct(catalog[2], contexts, all_perms[i])[2]]
        s_o_max == CHOOSE m \in {s_o[i] : i \in DOMAIN s_o} :
                       \A i \in DOMAIN s_o : s_o[i] <= m
        tables == general(contexts, rewards, max_num_observations, s_o_max)
        S_Size == tables[3]
    IN  [ time_horizon |-> time_horizon,
          context_dimensionality |-> context_dimensionality,
          max_num_observations |-> max_num_observations,
          number_of_actions |-> number_of_actions,
          all_perms |-> all_perms,
          perm_to_index |->
              [perm \in {all_perms[i] : i \in DOMAIN all_perms} |->
                  CHOOSE i \in DOMAIN all_perms :
                      all_perms[i] = perm /\ \A j \in DOMAIN all_perms :
                                                all_perms[j] = perm => j <= i],
          number_of_perms |-> number_of_perms,
          s_o |-> s_o,
          selected_context |-> [t \in 0..(time_horizon - 1) |-> Zeros(context_dimensionality)],
          selected_action |-> Zeros(time_horizon),
          all_gain |-> [t \in 0..time_horizon |-> Float(0)],
          collected_gains |-> [t \in 0..(time_horizon - 1) |-> Float(0)],
          collected_rewards |-> [t \in 0..(time_horizon - 1) |-> Float(0)],
          collected_costs |-> [t \in 0..(time_horizon - 1) |-> Float(0)],
          states |-> Zeros(time_horizon),
          true_average_rewards |->
              [t \in 0..(time_horizon - 1) |-> [k \in 0..(number_of_actions - 1) |-> Float(0)]],
          feature_values |-> catalog[1],
          all_feature_counts |-> catalog[2],
          s_o_max |-> s_o_max,
          Psi_total |-> SumOver(s_o, DOMAIN s_o),
          true_prob_so |-> tables[1],
          true_average_reward |-> tables[2],
          S_Size |-> S_Size,
          r_star |-> [i \in 0..(number_of_perms - 1) |-> [j \in 0..(s_o_max - 1) |->
                         IF j < S_Size[i] THEN amax(tables[2][i][j]) ELSE Float(0)]],
          action_star |-> [i \in 0..(number_of_perms - 1) |-> [j \in 0..(s_o_max - 1) |->
                              IF j < S_Size[i] THEN argmax(tables[2][i][j]) ELSE 0]],
          observation_action_at_t |-> <<>>,
          action_at_t |-> None ]

\* The object __init__ leaves: the statistics, and what lines 92 and 146-154
\* compute from them, beta and the cost vector.
SimOOS_Oracle(statistics, costs, beta) ==
    LET value_o == [i \in 0..(statistics.number_of_perms - 1) |->
                       value_of(beta, statistics.true_prob_so[i], statistics.r_star[i],
                                statistics.all_perms[i], costs)]
        index_of_observation_action_star == select(value_o)
    IN  statistics @@
        [ beta |-> beta,
          value_o |-> value_o,
          index_of_observation_action_star |-> index_of_observation_action_star,
          selected_observation_action_at_t |->
              statistics.all_perms[index_of_observation_action_star] ]

\* What choose_features_to_observe returns: the positions holding a 1.
observed_indices(observation_action) ==
    LET l == SortedInts({ind \in DOMAIN observation_action : observation_action[ind] # 0})
    IN  [n \in 0..(Len(l) - 1) |-> l[n + 1]]

\* choose_arm writing the trial's mean rewards into the table
\* true_average_reward instead of the log true_average_rewards
choose_arm_effect_typo(obj, t, context_at_t, pool_indices) ==
    LET s_t == state_extract(obj.feature_values, obj.all_feature_counts,
                             context_at_t, obj.observation_action_at_t)
        star == obj.index_of_observation_action_star
    IN  IF s_t.raised # "" THEN [obj |-> obj, ret |-> s_t]
        ELSE LET logged == [obj EXCEPT !.states[t] = s_t.value]
             IN  IF s_t.value >= obj.s_o_max \/ t >= obj.s_o_max
                 THEN [obj |-> logged, ret |-> Raised("IndexError")]
                 ELSE LET chosen == [logged EXCEPT
                              !.true_average_reward[star][t] =
                                  obj.true_average_reward[star][s_t.value],
                              !.action_at_t = obj.action_star[star][s_t.value]]
                          position == list_index(pool_indices, chosen.action_at_t)
                      IN  [obj |-> chosen,
                           ret |-> IF position = -1 THEN Raised("ValueError")
                                   ELSE Returned(position)]

\* choose_arm: the object it leaves and what it returns or raises.  What it
\* wrote before an exception stays written.
choose_arm_effect(obj, t, context_at_t, pool_indices) ==
    LET s_t == state_extract(obj.feature_values, obj.all_feature_counts,
                             context_at_t, obj.observation_action_at_t)
        star == obj.index_of_observation_action_star
    IN  IF s_t.raised # "" THEN [obj |-> obj, ret |-> s_t]
        ELSE LET logged == [obj EXCEPT !.states[t] = s_t.value]
             IN  IF s_t.value >= obj.s_o_max
                 THEN [obj |-> logged, ret |-> Raised("IndexError")]
                 ELSE LET chosen == [logged EXCEPT
                              !.true_average_rewards[t] =
                                  obj.true_average_reward[star][s_t.value],
                              !.action_at_t = obj.action_star[star][s_t.value]]
                          position == list_index(pool_indices, chosen.action_at_t)
                      IN  [obj |-> chosen,
                           ret |-> IF position = -1 THEN Raised("ValueError")
                                   ELSE Returned(position)]

\* update: the object it leaves.
update_effect(obj, t, action_index_at_t, reward_at_t, cost_vector_at_t, pool_indices) ==
    LET cost_at_t == Float(dot(cost_vector_at_t, obj.observation_action_at_t))
        action_at_t == pool_indices[action_index_at_t]
    IN  [obj EXCEPT
            !.selected_context[t] = obj.selected_observation_action_at_t,
            !.all_gain[t + 1] = FloatSub(FloatAdd(obj.all_gain[t], reward_at_t), cost_at_t),
            !.selected_action[t] = action_at_t,
            !.collected_gains[t] = FloatSub(reward_at_t, cost_at_t),
            !.collected_rewards[t] = reward_at_t,
            !.collected_costs[t] = cost_at_t]

---------------------------------------------------------------------------
(* The oracle, constructed from a dataset and replayed over its trials:    *)
(* for each trial in turn choose_features_to_observe, choose_arm on what   *)
(* was observed of the trial's context, update with the chosen arm's       *)
(* reward.  An exception ends the replay.                                  *)

RewardDomain == {Float(0), Float(1), NaN}

\* The arms offered at a trial, in the order the pool lists them.
Pools ==
    {pool \in UNION {Array(n, 0..(NumArms - 1)) : n \in 1..NumArms} :
        \A a, b \in DOMAIN pool : pool[a] = pool[b] => a = b}

Init ==
    /\ \E d \in 1..MaxFeatures, rows \in 1..MaxRows :
          /\ all_contexts \in Array(rows, Array(d, FeatureDomain))
          /\ all_rewards \in Array(rows, Array(NumArms, RewardDomain))
          /\ \E max_num_observations \in 0..d :
                \E statistics \in {oracle_statistics(all_contexts, all_rewards, NumArms,
                                                      max_num_observations)} :
                   /\ cost_vector \in Array(d, 0..MaxCost)
                   /\ \E beta \in 0..MaxBeta :
                         self = SimOOS_Oracle(statistics, cost_vector, beta)
    /\ trial = [t |-> 0, next |-> "observe"]
    /\ call = [fn |-> "__init__"]
    /\ ret = Returned(0)

choose_features_to_observe(t) ==
    /\ trial.next = "observe"
    /\ trial.t = t
    /\ self' = [self EXCEPT !.observation_action_at_t =
                                self.selected_observation_action_at_t]
    /\ call' = [fn |-> "choose_features_to_observe", t |-> t]
    /\ ret' = Returned(observed_indices(self.selected_observation_action_at_t))
    /\ trial' = [trial EXCEPT !.next = "arm"]
    /\ UNCHANGED <<all_contexts, all_rewards, cost_vector>>

choose_arm(t, context_at_t, pool_indices) ==
    /\ trial.next = "arm"
    /\ trial.t = t
    /\ LET effect == choose_arm_effect(self, t, context_at_t, pool_indices)
       IN  /\ self' = effect.obj
           /\ ret' = effect.ret
           /\ trial' = [trial EXCEPT
                           !.next = IF effect.ret.raised = "" THEN "update" ELSE "crashed"]
    /\ call' = [fn |-> "choose_arm", t |-> t, context_at_t |-> context_at_t,
                pool_indices |-> pool_indices]
    /\ UNCHANGED <<all_contexts, all_rewards, cost_vector>>

update(t, action_index_at_t, reward_at_t, cost_vector_at_t, pool_indices) ==
    /\ trial.next = "update"
    /\ trial.t = t
    /\ self' = update_effect(self, t, action_index_at_t, reward_at_t,
                             cost_vector_at_t, pool_indices)
    /\ call' = [fn |-> "update", t |-> t, action_index_at_t |-> action_index_at_t,
                reward_at_t |-> reward_at_t, pool_indices |-> pool_indices]
    /\ ret' = Returned(0)
    /\ trial' = [t |-> t + 1,
                 next |-> IF t + 1 < self.time_horizon THEN "observe" ELSE "done"]
    /\ UNCHANGED <<all_contexts, all_rewards, cost_vector>>

\* What the replay observed of trial t's context: the features at the
\* returned indices, None elsewhere.
observed_context(t, feature_indices) ==
    [i \in DOMAIN all_contexts[t] |->
        IF \E n \in DOMAIN feature_indices : feature_indices[n] = i
        THEN all_contexts[t][i] ELSE None]

Next ==
    \/ \E t \in DOMAIN all_contexts : choose_features_to_observe(t)
    \/ \E t \in DOMAIN all_contexts, pool_indices \in Pools :
          choose_arm(t, observed_context(t, ret.value), pool_indices)
    \/ \E t \in DOMAIN all_contexts :
          update(t, ret.value, all_rewards[t][call.pool_indices[ret.value]],
                 cost_vector, call.pool_indices)

Spec == Init /\ [][Next]_vars

---------------------------------------------------------------------------
(* The utilities called on their own: the inputs are drawn at the start,   *)
(* and each step applies the function the call names.                      *)

BinaryVectors(n) == Array(n, {0, 1})

Datasets(n) == UNION {Array(rows, Array(n, FeatureDomain)) : rows \in 1..MaxRows}

PermConstructCalls ==
    UNION {
        {[fn |-> "perm_construct", org_dim_context |-> d, max_no_red_context |-> m] :
            m \in 0..d} :
        d \in 1..MaxPermDim}

StateExtractCalls ==
    UNION {
        {[fn |-> "state_extract",
          contexts |-> contexts,
          feature_values |-> save_feature_values(contexts)[1],
          all_feature_counts |-> save_feature_values(contexts)[2],
          context_at_t |-> context_at_t,
          observation_action_at_t |-> observation_action_at_t] :
            contexts \in Datasets(d),
            context_at_t \in Array(d, FeatureDomain \cup {None, Unseen}),
            observation_action_at_t \in BinaryVectors(d)} :
        d \in 1..MaxFeatures}

StateCreateCalls ==
    UNION {
        UNION {
            {[fn |-> "state_create",
              state_index |-> state_index,
              feature_values |-> save_feature_values(contexts)[1]] :
                state_index \in
                    0..(ProdOver(save_feature_values(contexts)[2], 0..(d - 1)) - 1)} :
            contexts \in Datasets(d)} :
        d \in 1..MaxFeatures}

GenerateSubstatesCalls ==
    UNION {
        {[fn |-> "generate_substates",
          partial_vector |-> partial_vector,
          observation |-> observation] :
            partial_vector \in Array(d, FeatureDomain \cup {None}),
            observation \in BinaryVectors(d)} :
        d \in 1..MaxPermDim}

UtilInit ==
    /\ call \in PermConstructCalls \cup StateExtractCalls
                    \cup StateCreateCalls \cup GenerateSubstatesCalls
    /\ ret = Pending
    /\ all_contexts = <<>>
    /\ all_rewards = <<>>
    /\ cost_vector = <<>>
    /\ self = <<>>
    /\ trial = <<>>

run_perm_construct ==
    /\ call.fn = "perm_construct"
    /\ ret = Pending
    /\ ret' = Returned(perm_construct(call.org_dim_context, call.max_no_red_context))
    /\ UNCHANGED <<all_contexts, all_rewards, cost_vector, self, trial, call>>

run_state_extract ==
    /\ call.fn = "state_extract"
    /\ ret = Pending
    /\ ret' = state_extract(call.feature_values, call.all_feature_counts,
                            call.context_at_t, call.observation_action_at_t)
    /\ UNCHANGED <<all_contexts, all_rewards, cost_vector, self, trial, call>>

run_state_create ==
    /\ call.fn = "state_create"
    /\ ret = Pending
    /\ ret' = Returned(state_create(call.state_index, call.feature_values))
    /\ UNCHANGED <<all_contexts, all_rewards, cost_vector, self, trial, call>>

run_generate_substates ==
    /\ call.fn = "generate_substates"
    /\ ret = Pending
    /\ ret' = generate_substates(call.partial_vector, call.observation)
    /\ UNCHANGED <<all_contexts, all_rewards, cost_vector, self, trial, call>>

UtilNext ==
    \/ run_perm_construct
    \/ run_state_extract
    \/ run_state_create
    \/ run_generate_substates

UtilSpec == UtilInit /\ [][UtilNext]_vars

---------------------------------------------------------------------------
(* Claims about the utilities, checked under UtilSpec. *)

Done(fn) == call.fn = fn /\ ret.raised # "pending"

HammingWeight(v) == SumOver(v, DOMAIN v)

\* The sentinel sits exactly at the positions the observation action marks 0.
ValidPartialVector(vector, observation) ==
    \A i \in DOMAIN vector : vector[i] = None <=> observation[i] = 0

\* C1: perm_construct(D, M), 0 <= M <= D, returns exactly the binary vectors of
\* length D and Hamming weight at most M, each one once; with M = D it
\* returns 2^D rows.
C1_PermConstructExact ==
    Done("perm_construct") =>
        LET d == call.org_dim_context
            m == call.max_no_red_context
            rows == ret.value
        IN  /\ ret.raised = ""
            /\ \A i \in DOMAIN rows :
                  rows[i] \in BinaryVectors(d) /\ HammingWeight(rows[i]) <= m
            /\ \A v \in BinaryVectors(d) :
                  HammingWeight(v) <= m =>
                      Cardinality({i \in DOMAIN rows : rows[i] = v}) = 1
            /\ (m = d => Size(rows) = Pow(2, d))

C1_Witness ==
    /\ Done("perm_construct")
    /\ call.org_dim_context = 3
    /\ call.max_no_red_context = 2
    /\ Size(ret.value) = 7

\* C2: for a valid partial vector, the index state_extract returns lies in
\* [0, arraySize), arraySize being the second value state_construct returns for
\* the same observation action.
C2_IndexBelowArraySize ==
    ( /\ Done("state_extract")
      /\ ValidPartialVector(call.context_at_t, call.observation_action_at_t)
      /\ ret.raised = "" ) =>
        /\ 0 <= ret.value
        /\ ret.value < state_construct(call.all_feature_counts, call.contexts,
                                       call.observation_action_at_t)[2]

\* C3: decoding an index state_extract produced gives back the partial vector,
\* and encoding the decoded vector under the same observation action gives back
\* the index; and every index state_create decodes encodes back to itself.
C3_RoundTrip ==
    /\ ( Done("state_extract") /\ ret.raised = "" ) =>
          LET decoded == state_create(ret.value, call.feature_values)
              again == state_extract(call.feature_values, call.all_feature_counts,
                                     decoded, call.observation_action_at_t)
          IN  /\ decoded = call.context_at_t
              /\ again.raised = ""
              /\ again.value = ret.value
    /\ Done("state_create") =>
          LET observation == [i \in DOMAIN ret.value |->
                                 IF ret.value[i] = None THEN 0 ELSE 1]
              counts == [i \in DOMAIN call.feature_values |->
                            Size(call.feature_values[i])]
              again == state_extract(call.feature_values, counts, ret.value, observation)
          IN  again.raised = "" /\ again.value = call.state_index

C3_Witness ==
    /\ Done("state_extract")
    /\ ret.raised = ""
    /\ Size(call.context_at_t) = 2
    /\ call.all_feature_counts[0] # call.all_feature_counts[1]
    /\ call.observation_action_at_t = [i \in 0..1 |-> 1]
    /\ call.context_at_t[0] # call.context_at_t[1]

\* C4: state_extract raises when some position holds the sentinel under an
\* observation bit 1 or a concrete value under a bit 0; it returns an index
\* only when every position holds the sentinel iff its bit is 0.
C4_MismatchRaises ==
    Done("state_extract") =>
        /\ ~ValidPartialVector(call.context_at_t, call.observation_action_at_t)
              => ret.raised = "AssertionError"
        /\ ret.raised = ""
              => ValidPartialVector(call.context_at_t, call.observation_action_at_t)

C4_Witness ==
    /\ Done("state_extract")
    /\ ret.raised = "AssertionError"
    /\ \E i, j \in DOMAIN call.context_at_t :
          /\ call.context_at_t[i] = None /\ call.observation_action_at_t[i] = 1
          /\ call.context_at_t[j] \in FeatureDomain /\ call.observation_action_at_t[j] = 1

\* C5: for a partial vector with concrete values at the k observed positions,
\* generate_substates returns 2^k pairwise distinct substates, the all-sentinel
\* one among them; each keeps the original value where its sub-observation
\* marks 1 and holds the sentinel elsewhere, and every sub-observation is
\* element-wise <= the observation action.
C5_Substates ==
    ( /\ Done("generate_substates")
      /\ \A i \in DOMAIN call.observation :
            call.observation[i] = 1 => call.partial_vector[i] # None ) =>
        /\ ret.raised = ""
        /\ LET substates == ret.value[1]
               substate_observations == ret.value[2]
               k == HammingWeight(call.observation)
           IN  /\ Size(substates) = Pow(2, k)
               /\ DOMAIN substates = DOMAIN substate_observations
               /\ \A i, j \in DOMAIN substates : substates[i] = substates[j] => i = j
               /\ \E i \in DOMAIN substates :
                     \A p \in DOMAIN call.observation : substates[i][p] = None
               /\ \A i \in DOMAIN substates : \A p \in DOMAIN call.observation :
                     /\ substate_observations[i][p] <= call.observation[p]
                     /\ substates[i][p] =
                            IF substate_observations[i][p] = 1
                            THEN call.partial_vector[p] ELSE None

C5_Witness ==
    /\ Done("generate_substates")
    /\ ret.raised = ""
    /\ Size(call.observation) = 3
    /\ HammingWeight(call.observation) = 2
    /\ ValidPartialVector(call.partial_vector, call.observation)
    /\ Size(ret.value[1]) = 4

---------------------------------------------------------------------------
(* Claims about the oracle, checked under Spec. *)

\* The trials whose context, masked by one_perm, equals trial t's.
Group(one_perm, t) ==
    {u \in DOMAIN all_contexts :
        masked_contexts(all_contexts, one_perm)[u] =
            masked_contexts(all_contexts, one_perm)[t]}

\* The row of the batch tables that general() filled for trial t's group.
GroupRow(one_perm, t) ==
    LET masked == masked_contexts(all_contexts, one_perm)
        S == unique_rows({masked[u] : u \in DOMAIN all_contexts})
    IN  CHOOSE j \in DOMAIN S : S[j] = masked[t]

SameFloat(x, y) == (isnan(x) /\ isnan(y)) \/ FloatEq(x, y)

\* beta * sum over the states of P(state) * bestReward(state) - action . cost
ExpectedNetGain(i) ==
    LET states == 0..(self.S_Size[i] - 1)
        best == [j \in states |-> amax(self.true_average_reward[i][j])]
    IN  FloatSub(FloatMul(Float(self.beta),
                          FloatSum([j \in states |->
                                       FloatMul(self.true_prob_so[i][j], best[j])],
                                   states)),
                 Float(dot(self.all_perms[i], cost_vector)))

\* C6: the selected observation action is the first, in enumeration order,
\* of those maximizing value_o[i] = beta * sum_states P * bestReward - action . cost:
\* no action has a strictly larger value and no earlier one an equal value.
C6_FirstMaximum ==
    LET star == self.index_of_observation_action_star
    IN  /\ star \in DOMAIN self.all_perms
        /\ self.selected_observation_action_at_t = self.all_perms[star]
        /\ \A i \in DOMAIN self.all_perms :
              /\ SameFloat(self.value_o[i], ExpectedNetGain(i))
              /\ ~FloatLess(self.value_o[star], self.value_o[i])
              /\ i < star => ~FloatEq(self.value_o[i], self.value_o[star])

C6_Witness ==
    LET star == self.index_of_observation_action_star
    IN  /\ star > 0
        /\ \E i \in DOMAIN self.all_perms :
              i > star /\ FloatEq(self.value_o[i], self.value_o[star])
        /\ \E i \in DOMAIN self.all_perms :
              i < star /\ FloatLess(self.value_o[i], self.value_o[star])

\* C7: for a trial whose masked context is that of a historical group,
\* choose_arm returns the pool position of the arm that is the argmax of that
\* group's mean rewards (when the pool offers that arm).
C7_ChooseArmBestOfGroup ==
    ( call.fn = "choose_arm" ) =>
        LET star == self.index_of_observation_action_star
            row == GroupRow(self.selected_observation_action_at_t, call.t)
            best == argmax(self.true_average_reward[star][row])
        IN  (\E n \in DOMAIN call.pool_indices : call.pool_indices[n] = best) =>
                /\ ret.raised = ""
                /\ call.pool_indices[ret.value] = best

\* C8: with beta = 0 the selected observation action is the all-zero vector.
C8_BetaZeroObservesNothing ==
    self.beta = 0 =>
        \A p \in DOMAIN self.selected_observation_action_at_t :
            self.selected_observation_action_at_t[p] = 0

C8_Witness ==
    /\ self.beta = 0
    /\ self.number_of_perms > 2
    /\ \E p \in DOMAIN cost_vector : cost_vector[p] = 0
    /\ \E p \in DOMAIN cost_vector : cost_vector[p] > 0
    /\ \E i \in DOMAIN self.all_perms : i > 0 /\ FloatEq(self.value_o[i], self.value_o[0])

OracleTables(obj) ==
    << obj.selected_observation_action_at_t, obj.index_of_observation_action_star,
       obj.all_perms, obj.feature_values, obj.all_feature_counts,
       obj.true_prob_so, obj.true_average_reward, obj.S_Size,
       obj.r_star, obj.action_star, obj.value_o >>

\* C9: no call changes the selected observation action or the precomputed
\* tables, and every choose_features_to_observe call returns the positions
\* where the selected action has bit 1.
C9_TablesImmutable ==
    /\ [][OracleTables(self') = OracleTables(self)]_vars
    /\ [](call.fn = "choose_features_to_observe" =>
            /\ ret.raised = ""
            /\ {ret.value[n] : n \in DOMAIN ret.value} =
                   {p \in DOMAIN self.selected_observation_action_at_t :
                       self.selected_observation_action_at_t[p] = 1}
            /\ \A a, b \in DOMAIN ret.value : ret.value[a] = ret.value[b] => a = b)

C9_Witness ==
    /\ trial.next = "done"
    /\ self.time_horizon = 2
    /\ HammingWeight(self.selected_observation_action_at_t) >= 1
    /\ self.states[0] # self.states[1]

\* C10: for every observation action, group and arm, the stored mean reward
\* is the sum of the arm's defined rewards over the group divided by the number
\* of trials of the group where it is defined; the stored probability of the
\* group is its size over the number of trials.
C10_MeanOverRecorded ==
    \A i \in DOMAIN self.all_perms : \A t \in DOMAIN all_contexts :
        LET row == GroupRow(self.all_perms[i], t)
            group == Group(self.all_perms[i], t)
        IN  /\ FloatEq(self.true_prob_so[i][row],
                       <<Cardinality(group), Size(all_contexts)>>)
            /\ \A k \in 0..(NumArms - 1) :
                  LET recorded == {u \in group : ~isnan(all_rewards[u][k])}
                  IN  recorded # {} =>
                          FloatEq(self.true_average_reward[i][row][k],
                                  FloatDiv(FloatSum([u \in recorded |-> all_rewards[u][k]],
                                                    recorded),
                                           Cardinality(recorded)))

=============================================================================
